---- MODULE Spec2Model ----
(***************************************************************************)
(* thane_egui_utils: the ListModel / KeyedListModel contract of            *)
(* src/item_model.rs over its two backings (Vec<I> and IndexMap<String,I>) *)
(* and the searchable selector widget of src/drop_down.rs.                 *)
(*                                                                         *)
(* Indices are 0-based as in the source; a sequence s holds index i at     *)
(* s[i + 1].  A call that panics is recorded in `panicked`.                *)
(***************************************************************************)
EXTENDS Integers, Sequences, FiniteSets, TLC

\* Largest number of items a model holds in the explored state space.
MaxLen == 3

\* Largest number of successful remove calls in an explored run.
MaxRemoves == 2

\* Keys of KeyedViewItem::key() and display texts of ViewItem::with_text().
\* A text is a sequence of characters, so that str::contains is computed.
Keys == {"k1", "k2", "k3"}

Texts == {<< >>, <<"a">>, <<"b">>, <<"a", "b">>, <<"b", "a">>}

\* Texts of the items handed to add / insert.
ItemTexts == {<<"a">>, <<"a", "b">>}

\* An item I: its key (KeyedViewItem) and its display text, the rest of it.
Item(k, t) == [key |-> k, text |-> t]

Items == {Item(k, t) : k \in Keys, t \in ItemTexts}

\* The items handed to a Vec model, which has no key concept: three items
\* that differ from one another.
VecItems == {Item("k1", <<"a">>), Item("k2", <<"a", "b">>), Item("k3", <<"b">>)}

\* usize arguments: the valid indices of a full model and one beyond them.
Indices == 0 .. MaxLen

\* Option<T>
None == [some |-> FALSE]

Some(x) == [some |-> TRUE, val |-> x]

\* The outcome of a library call on a collection: the collection after it and
\* whether the call panicked.
Ok(m) == [m |-> m, panic |-> FALSE]

Panic(m) == [m |-> m, panic |-> TRUE]

At(s, i) == s[i + 1]

InBounds(s, i) == i >= 0 /\ i < Len(s)

(***************************************************************************)
(* std::vec::Vec as used by impl ListModel<I> for Vec<I>.                  *)
(***************************************************************************)
std_Vec_get(s, i) == IF InBounds(s, i) THEN Some(At(s, i)) ELSE None

std_Vec_push(s, x) == Ok(Append(s, x))

\* Vec::insert panics if index > len.
std_Vec_insert(s, i, x) ==
    IF i > Len(s) THEN Panic(s)
    ELSE Ok(SubSeq(s, 1, i) \o <<x>> \o SubSeq(s, i + 1, Len(s)))

\* Vec::remove panics if index is out of bounds.
std_Vec_remove(s, i) ==
    IF ~InBounds(s, i) THEN Panic(s)
    ELSE Ok(SubSeq(s, 1, i) \o SubSeq(s, i + 2, Len(s)))

\* slice::swap panics if a or b are out of bounds.
std_Vec_swap(s, a, b) ==
    IF ~(InBounds(s, a) /\ InBounds(s, b)) THEN Panic(s)
    ELSE Ok([s EXCEPT ![a + 1] = s[b + 1], ![b + 1] = s[a + 1]])

\* self[b] = self[a].clone(): Index / IndexMut panic out of bounds.
std_Vec_index_assign(s, a, b) ==
    IF ~(InBounds(s, a) /\ InBounds(s, b)) THEN Panic(s)
    ELSE Ok([s EXCEPT ![b + 1] = s[a + 1]])

(***************************************************************************)
(* impl ListModel<I> for Vec<I>                                            *)
(***************************************************************************)
Vec_len(s) == Len(s)

Vec_is_empty(s) == Len(s) = 0

Vec_item(s, index) == std_Vec_get(s, index)

Vec_item_mut(s, index) == std_Vec_get(s, index)

Vec_add(s, item) == std_Vec_push(s, item)

\* A variant of insert that takes index == len() as out of range.
Vec_insert_strict(s, index, item) ==
    IF index < Vec_len(s) THEN std_Vec_insert(s, index, item) ELSE Ok(s)

Vec_insert(s, index, item) ==
    IF index <= Vec_len(s) THEN std_Vec_insert(s, index, item) ELSE Ok(s)

Vec_remove(s, index) ==
    IF index < Vec_len(s) THEN std_Vec_remove(s, index) ELSE Ok(s)

Vec_swap_items(s, a, b) ==
    IF a < Vec_len(s) /\ b < Vec_len(s) THEN std_Vec_swap(s, a, b) ELSE Ok(s)

Vec_copy(s, a, b) ==
    IF a < Vec_len(s) /\ b < Vec_len(s) THEN std_Vec_index_assign(s, a, b)
    ELSE Ok(s)

Vec_row_to_index(s, row_number) ==
    IF row_number \in 0 .. (Vec_len(s) - 1) THEN Some(row_number) ELSE None

(***************************************************************************)
(* indexmap::IndexMap<String, I> as used by the keyed backing: a sequence  *)
(* of entries [k, v] in insertion order, k the map key and v the item.     *)
(***************************************************************************)
Entry(k, v) == [k |-> k, v |-> v]

indexmap_get_index(m, i) == IF InBounds(m, i) THEN Some(At(m, i)) ELSE None

indexmap_contains_key(m, key) == \E i \in 1 .. Len(m) : m[i].k = key

indexmap_get_index_of(m, key) ==
    IF indexmap_contains_key(m, key)
    THEN Some((CHOOSE i \in 1 .. Len(m) :
                  /\ m[i].k = key
                  /\ \A j \in 1 .. (i - 1) : m[j].k # key) - 1)
    ELSE None

\* IndexMap::insert: an existing key keeps its position and gets the new
\* value; a new key is appended.
indexmap_insert(m, key, value) ==
    IF indexmap_contains_key(m, key)
    THEN Ok([i \in 1 .. Len(m) |->
                IF m[i].k = key THEN Entry(m[i].k, value) ELSE m[i]])
    ELSE Ok(Append(m, Entry(key, value)))

\* A variant of move_index that exchanges the two entries.
indexmap_move_index_swaps(m, from, to) ==
    IF ~(InBounds(m, from) /\ InBounds(m, to)) THEN Panic(m)
    ELSE Ok([m EXCEPT ![from + 1] = m[to + 1], ![to + 1] = m[from + 1]])

\* IndexMap::move_index panics if from or to are out of bounds; the entry
\* at `from` is taken out and put back at `to`, the others shifting.
indexmap_move_index(m, from, to) ==
    IF ~(InBounds(m, from) /\ InBounds(m, to)) THEN Panic(m)
    ELSE LET rest == SubSeq(m, 1, from) \o SubSeq(m, from + 2, Len(m))
         IN  Ok(SubSeq(rest, 1, to) \o <<At(m, from)>>
                    \o SubSeq(rest, to + 1, Len(rest)))

\* A variant that fills the slot with the last entry (swap_remove_index).
indexmap_swap_remove_index(m, i) ==
    IF ~InBounds(m, i) THEN Ok(m)
    ELSE IF i = Len(m) - 1 THEN Ok(SubSeq(m, 1, i))
    ELSE Ok(SubSeq(m, 1, i) \o <<m[Len(m)]>> \o SubSeq(m, i + 2, Len(m) - 1))

\* IndexMap::shift_remove_index returns None out of bounds.
indexmap_shift_remove_index(m, i) ==
    IF ~InBounds(m, i) THEN Ok(m)
    ELSE Ok(SubSeq(m, 1, i) \o SubSeq(m, i + 2, Len(m)))

\* IndexMap::swap_indices panics if a or b are out of bounds.
indexmap_swap_indices(m, a, b) ==
    IF ~(InBounds(m, a) /\ InBounds(m, b)) THEN Panic(m)
    ELSE Ok([m EXCEPT ![a + 1] = m[b + 1], ![b + 1] = m[a + 1]])

\* KeyedViewItem::key and KeyedViewItem::set_key
key(item) == item.key

set_key(item, k) == [item EXCEPT !.key = k]

(***************************************************************************)
(* impl ListModel<I> for IndexMap<String, I>                               *)
(***************************************************************************)
IndexMap_len(m) == Len(m)

IndexMap_is_empty(m) == Len(m) = 0

IndexMap_item(m, index) ==
    IF indexmap_get_index(m, index).some
    THEN Some(indexmap_get_index(m, index).val.v) ELSE None

IndexMap_item_mut(m, index) ==
    IF indexmap_get_index(m, index).some
    THEN Some(indexmap_get_index(m, index).val.v) ELSE None

\* A variant of add that lets the last writer win.
IndexMap_add_overwrites(m, item) == indexmap_insert(m, key(item), item)

IndexMap_add(m, item) ==
    IF ~indexmap_contains_key(m, key(item))
    THEN indexmap_insert(m, key(item), item) ELSE Ok(m)

\* A variant of insert without the bounds check.
IndexMap_insert_unchecked(m, index, item) ==
    LET added == IndexMap_add(m, item).m
    IN  IF IndexMap_len(added) = 0 THEN Panic(added)
        ELSE indexmap_move_index(added, IndexMap_len(added) - 1, index)

\* A variant of insert that takes index == len() as out of range.
IndexMap_insert_strict(m, index, item) ==
    IF index < IndexMap_len(m)
    THEN LET added == IndexMap_add(m, item).m
         IN  indexmap_move_index(added, IndexMap_len(added) - 1, index)
    ELSE Ok(m)

\* self.len() - 1 is a usize subtraction: it overflows on an empty map (a
\* panic in a debug build, an out-of-range `from` otherwise).
IndexMap_insert(m, index, item) ==
    IF index <= IndexMap_len(m)
    THEN LET added == IndexMap_add(m, item).m
         IN  IF IndexMap_len(added) = 0 THEN Panic(added)
             ELSE indexmap_move_index(added, IndexMap_len(added) - 1, index)
    ELSE Ok(m)

IndexMap_remove(m, index) ==
    IF index < IndexMap_len(m) THEN indexmap_shift_remove_index(m, index)
    ELSE Ok(m)

IndexMap_swap_items(m, a, b) ==
    IF a < IndexMap_len(m) /\ b < IndexMap_len(m)
    THEN indexmap_swap_indices(m, a, b) ELSE Ok(m)

\* A variant of copy that stores the clone without rewriting its key.
IndexMap_copy_keeps_key(m, a, b) ==
    IF indexmap_get_index(m, b).some /\ indexmap_get_index(m, a).some
    THEN indexmap_insert(m, indexmap_get_index(m, b).val.k,
                         indexmap_get_index(m, a).val.v)
    ELSE Ok(m)

\* A variant of copy that copies b into a.
IndexMap_copy_reversed(m, a, b) ==
    IF indexmap_get_index(m, b).some /\ indexmap_get_index(m, a).some
    THEN indexmap_insert(m, indexmap_get_index(m, a).val.k,
             set_key(indexmap_get_index(m, b).val.v,
                     indexmap_get_index(m, a).val.k))
    ELSE Ok(m)

IndexMap_copy(m, a, b) ==
    IF indexmap_get_index(m, b).some
    THEN IF indexmap_get_index(m, a).some
         THEN indexmap_insert(m, indexmap_get_index(m, b).val.k,
                  set_key(indexmap_get_index(m, a).val.v,
                          indexmap_get_index(m, b).val.k))
         ELSE Ok(m)
    ELSE Ok(m)

IndexMap_row_to_index(m, row_number) ==
    IF row_number \in 0 .. (IndexMap_len(m) - 1) THEN Some(row_number)
    ELSE None

\* impl KeyedListModel<I> for IndexMap<String, I>
IndexMap_index_of(m, k) == indexmap_get_index_of(m, k)

(***************************************************************************)
(* The model under test: `backing` is the type the contract is             *)
(* instantiated with, `model` its value (a Vec: a sequence of items; an    *)
(* IndexMap: a sequence of entries).                                       *)
(***************************************************************************)
VARIABLES backing, model, call, ret, panicked, adds, removes

(***************************************************************************)
(* The selector widget (ModelDropDown) and its caller: `mode` is the entry *)
(* point the caller renders with (show or show_indexed), `decorated` the   *)
(* item type's I::decorated(DropDown), `selected_index` / `selected_key`   *)
(* the caller-held selection, `persisted` the search text in egui's memory *)
(* under the widget's id (absent reads as the empty string), `popup_open`  *)
(* whether egui's memory has the widget's popup open, `frame` the input    *)
(* events of the render pass just made.                                    *)
(***************************************************************************)
VARIABLES mode, decorated, transforms, selected_index, selected_key,
          persisted, popup_open, frame

modelVars == <<backing, model, call, ret, panicked, adds, removes>>

widgetVars ==
    <<mode, decorated, transforms, selected_index, selected_key, persisted,
      popup_open, frame>>

vars == <<modelVars, widgetVars>>

Backings == {"Vec", "IndexMap"}

\* Trait dispatch of ListModel<I> / KeyedListModel<I> on the backing type.
ListModel_len(b, m) == IF b = "Vec" THEN Vec_len(m) ELSE IndexMap_len(m)

ListModel_item(b, m, index) ==
    IF b = "Vec" THEN Vec_item(m, index) ELSE IndexMap_item(m, index)

ListModel_item_mut(b, m, index) ==
    IF b = "Vec" THEN Vec_item_mut(m, index) ELSE IndexMap_item_mut(m, index)

ListModel_add(b, m, item) ==
    IF b = "Vec" THEN Vec_add(m, item) ELSE IndexMap_add(m, item)

ListModel_insert(b, m, index, item) ==
    IF b = "Vec" THEN Vec_insert(m, index, item)
    ELSE IndexMap_insert(m, index, item)

ListModel_remove(b, m, index) ==
    IF b = "Vec" THEN Vec_remove(m, index) ELSE IndexMap_remove(m, index)

ListModel_swap_items(b, m, x, y) ==
    IF b = "Vec" THEN Vec_swap_items(m, x, y) ELSE IndexMap_swap_items(m, x, y)

ListModel_copy(b, m, x, y) ==
    IF b = "Vec" THEN Vec_copy(m, x, y) ELSE IndexMap_copy(m, x, y)

ListModel_row_to_index(b, m, row_number) ==
    IF b = "Vec" THEN Vec_row_to_index(m, row_number)
    ELSE IndexMap_row_to_index(m, row_number)

\* The call just made: the operation and its arguments.
Call(op, a, b, item) == [op |-> op, a |-> a, b |-> b, item |-> item]

NoCall == Call("new", 0, 0, None)

\* The items a caller hands to a model of backing b.
NewItems(b) == IF b = "Vec" THEN VecItems ELSE Items

\* Call history: a successful add is an add or insert call that stores a new
\* item (for the keyed backing: whose key is not stored yet), a successful
\* remove a remove call with an index in bounds.
StoresNew(b, m, c) ==
    /\ c.op \in {"add", "insert"}
    /\ c.op = "insert" => c.a <= Len(m)
    /\ b = "IndexMap" => \A i \in 1 .. Len(m) : m[i].k # c.item.val.key

RemovesOne(b, m, c) == c.op = "remove" /\ c.a < Len(m)

\* What a render pass reads: whether the popup is open when it starts
\* (is_popup_open), the builder's force_refresh, what the text field reports
\* (gained_focus, changed and the text then in it) and where the pointer
\* clicked: on row `row` of the popup, outside (or Escape), or neither.
Frame(open, force_refresh, gained_focus, changed, typed, click, row) ==
    [open |-> open, force_refresh |-> force_refresh,
     gained_focus |-> gained_focus, changed |-> changed, typed |-> typed,
     click |-> click, row |-> row]

NoFrame == Frame(FALSE, FALSE, FALSE, FALSE, << >>, "none", 0)

\* No widget is rendered.
WidgetIdle ==
    /\ mode = "none"
    /\ decorated = FALSE
    /\ transforms = None
    /\ selected_index = None
    /\ selected_key = None
    /\ persisted = << >>
    /\ popup_open = FALSE
    /\ frame = NoFrame

Init ==
    /\ backing \in Backings
    /\ model = << >>
    /\ call = NoCall
    /\ ret = None
    /\ panicked = FALSE
    /\ adds = 0
    /\ removes = 0
    /\ WidgetIdle

\* A mutating call: the model becomes what the call left, also when it
\* panicked. Only models of at most MaxLen items are explored.
Mutate(c, res) ==
    /\ Len(res.m) <= MaxLen
    /\ RemovesOne(backing, model, c) => removes < MaxRemoves
    /\ model' = res.m
    /\ panicked' = res.panic
    /\ ret' = None
    /\ call' = c
    /\ adds' = adds + (IF StoresNew(backing, model, c) THEN 1 ELSE 0)
    /\ removes' = removes + (IF RemovesOne(backing, model, c) THEN 1 ELSE 0)
    /\ UNCHANGED <<backing, widgetVars>>

\* A reading call: returns `r`.
Query(c, r) ==
    /\ ret' = r
    /\ panicked' = FALSE
    /\ call' = c
    /\ UNCHANGED <<backing, model, adds, removes, widgetVars>>

Add ==
    \E item \in NewItems(backing) :
        Mutate(Call("add", 0, 0, Some(item)),
               ListModel_add(backing, model, item))

Insert ==
    \E index \in Indices, item \in NewItems(backing) :
        Mutate(Call("insert", index, 0, Some(item)),
               ListModel_insert(backing, model, index, item))

Remove ==
    \E index \in Indices :
        Mutate(Call("remove", index, 0, None),
               ListModel_remove(backing, model, index))

SwapItems ==
    \E a \in Indices, b \in Indices :
        Mutate(Call("swap_items", a, b, None),
               ListModel_swap_items(backing, model, a, b))

Copy ==
    \E a \in Indices, b \in Indices :
        Mutate(Call("copy", a, b, None),
               ListModel_copy(backing, model, a, b))

GetItem ==
    \E index \in Indices :
        Query(Call("item", index, 0, None),
              ListModel_item(backing, model, index))

GetItemMut ==
    \E index \in Indices :
        Query(Call("item_mut", index, 0, None),
              ListModel_item_mut(backing, model, index))

RowToIndex ==
    \E row_number \in Indices :
        Query(Call("row_to_index", row_number, 0, None),
              ListModel_row_to_index(backing, model, row_number))

IndexOf ==
    /\ backing = "IndexMap"
    /\ \E k \in Keys :
           Query(Call("index_of", 0, 0, Some(Item(k, << >>))),
                 IndexMap_index_of(model, k))

Next ==
    \/ Add
    \/ Insert
    \/ Remove
    \/ SwapItems
    \/ Copy
    \/ GetItem
    \/ GetItemMut
    \/ RowToIndex
    \/ IndexOf

Spec == Init /\ [][Next]_vars

(***************************************************************************)
(* Callers that also write through the reference item_mut returns.         *)
(***************************************************************************)
\* The model after `*model.item_mut(index).unwrap() = item`: the reference
\* is to the stored value, in the keyed backing the value of the entry.
ListModel_item_mut_write(b, m, index, item) ==
    IF b = "Vec" THEN [m EXCEPT ![index + 1] = item]
    ELSE [m EXCEPT ![index + 1] = Entry(m[index + 1].k, item)]

\* model.item_mut(index).map(|item| item.set_key(k))
ItemMutSetKey ==
    \E index \in Indices, k \in Keys :
        LET r == ListModel_item_mut(backing, model, index)
        IN  /\ r.some
            /\ Mutate(Call("set_key", index, 0, Some(Item(k, << >>))),
                      Ok(ListModel_item_mut_write(backing, model, index,
                                                  set_key(r.val, k))))

\* A keyed model whose caller adds, removes and calls set_key through
\* item_mut.
SetKeyInit == Init /\ backing = "IndexMap"

SetKeyNext ==
    \/ Add
    \/ Remove
    \/ ItemMutSetKey

SetKeySpec == SetKeyInit /\ [][SetKeyNext]_vars

(***************************************************************************)
(* ModelDropDown (src/drop_down.rs): one evaluation of show / show_indexed *)
(* per render pass.                                                        *)
(***************************************************************************)
\* Search texts a user types.
SearchTexts == {<< >>, <<"a">>, <<"b">>, <<"a", "b">>}

\* ViewItem::with_text
with_text(item) == item.text

\* A variant that matches `pat` at the start of `text` only.
contains_at_start(text, pat) ==
    Len(pat) <= Len(text) /\ SubSeq(text, 1, Len(pat)) = pat

\* str::contains: `pat` occurs in `text` as a contiguous substring.
contains(text, pat) ==
    \E o \in 0 .. (Len(text) - Len(pat)) :
        SubSeq(text, o + 1, o + Len(pat)) = pat

\* A variant that shows the last item for an index past the end.
display_text_clamped(b, m, index) ==
    IF index.some /\ ListModel_len(b, m) > 0
    THEN LET i == IF index.val < ListModel_len(b, m) THEN index.val
                  ELSE ListModel_len(b, m) - 1
         IN  with_text(ListModel_item(b, m, i).val)
    ELSE << >>

\* show_impl: the display text of the selection, empty without one.
display_text(b, m, index) ==
    IF index.some /\ ListModel_item(b, m, index.val).some
    THEN with_text(ListModel_item(b, m, index.val).val)
    ELSE << >>

\* A variant that puts the persisted search text into the field always.
initial_search_persisted(b, m, index, text, open) == text

\* show_impl: the text put into the field: the persisted search text while
\* the popup is open, the display text otherwise.
initial_search(b, m, index, text, open) ==
    IF open THEN text ELSE display_text(b, m, index)

\* text_edit_singleline(&mut search): a change leaves the typed text in it.
edited_search(b, m, index, text, open, f) ==
    IF f.changed THEN f.typed ELSE initial_search(b, m, index, text, open)

\* show_impl: the search text after the gained_focus / force_refresh /
\* changed branches; the rows are filtered by it.
search_after_events(b, m, index, text, open, f) ==
    IF f.gained_focus THEN << >>
    ELSE IF f.force_refresh THEN display_text(b, m, index)
    ELSE edited_search(b, m, index, text, open, f)

\* A variant that lets a change of the text win over force_refresh.
persisted_after_events_changed_first(b, m, index, text, open, f) ==
    IF f.gained_focus THEN << >>
    ELSE IF f.changed THEN edited_search(b, m, index, text, open, f)
    ELSE IF f.force_refresh THEN display_text(b, m, index)
    ELSE text

\* A variant that does not persist a change of the text.
persisted_after_events_unsaved(b, m, index, text, open, f) ==
    IF f.gained_focus THEN << >>
    ELSE IF f.force_refresh THEN display_text(b, m, index)
    ELSE text

\* show_impl: the persisted search text after the same branches.
persisted_after_events(b, m, index, text, open, f) ==
    IF f.gained_focus THEN << >>
    ELSE IF f.force_refresh THEN display_text(b, m, index)
    ELSE IF f.changed THEN edited_search(b, m, index, text, open, f)
    ELSE text

\* A variant in which a focus gain does not open the popup.
popup_after_events_keeps(open, f) == open

\* show_impl: gained_focus opens the popup.
popup_after_events(open, f) == f.gained_focus \/ open

\* The rows of the two-column layout (I::decorated(DropDown)), top to
\* bottom: `for i in 0..model.len()` renders the row of index i when its
\* item's text passes the filter.
RECURSIVE decorated_rows_from(_, _, _, _)
decorated_rows_from(b, m, search, i) ==
    IF i >= ListModel_len(b, m) THEN << >>
    ELSE LET item == ListModel_item(b, m, i)
             rest == decorated_rows_from(b, m, search, i + 1)
         IN  IF /\ item.some
                /\ (search = << >> \/ contains(with_text(item.val), search))
             THEN <<i>> \o rest
             ELSE rest

decorated_rows(b, m, search) == decorated_rows_from(b, m, search, 0)

\* The rows of the text-only layout, by the same loop.
RECURSIVE text_only_rows_from(_, _, _, _)
text_only_rows_from(b, m, search, i) ==
    IF i >= ListModel_len(b, m) THEN << >>
    ELSE LET item == ListModel_item(b, m, i)
             rest == text_only_rows_from(b, m, search, i + 1)
         IN  IF /\ item.some
                /\ (search = << >> \/ contains(with_text(item.val), search))
             THEN <<i>> \o rest
             ELSE rest

text_only_rows(b, m, search) == text_only_rows_from(b, m, search, 0)

visible_rows(d, b, m, search) ==
    IF d THEN decorated_rows(b, m, search) ELSE text_only_rows(b, m, search)

\* drop_down_item_ui / selectable_label: the row of index i is drawn as the
\* selected one when i is the index show_impl was given.
row_selected(index, i) == Some(i) = index

\* The indices a sequence of rows holds.
RowSet(rows) == {rows[j] : j \in 1 .. Len(rows)}

\* What the text field can report in a render pass: no change, or a change
\* to a text other than the one put into it.
EditEvents(b, m, index, text, open) ==
    {<<FALSE, << >> >>}
        \cup {<<TRUE, t>> :
                t \in SearchTexts \ {initial_search(b, m, index, text, open)}}

\* Where the pointer can click, given the other events f0 of the pass: the
\* popup's rows are rendered, and can be clicked, only while the popup is
\* open, and so is a click outside of it (or Escape) noticed.
ClickEvents(d, b, m, index, text, open, f0) ==
    {f0} \cup
        IF popup_after_events(open, f0)
        THEN {[f0 EXCEPT !.click = "outside"]} \cup
             {[f0 EXCEPT !.click = "row", !.row = i] :
                  i \in RowSet(visible_rows(d, b, m,
                           search_after_events(b, m, index, text, open, f0)))}
        ELSE {}

\* The events a render pass can see in the state it starts from.
FrameEvents(d, b, m, index, text, open) ==
    UNION {ClickEvents(d, b, m, index, text, open,
                       Frame(open, fr, gf, e[1], e[2], "none", 0)) :
              fr \in BOOLEAN, gf \in BOOLEAN,
              e \in EditEvents(b, m, index, text, open)}

\* A variant that returns the clicked row's position among the rendered
\* rows in place of its index in the model.
show_impl_view_position(d, b, m, index, text, open, f) ==
    LET rows == visible_rows(d, b, m,
                             search_after_events(b, m, index, text, open, f))
    IN  [selection |->
             IF f.click = "row"
             THEN Some(Cardinality({j \in 1 .. Len(rows) : rows[j] < f.row}))
             ELSE None,
         persisted |->
             IF f.click = "row"
             THEN with_text(ListModel_item(b, m, f.row).val)
             ELSE persisted_after_events(b, m, index, text, open, f),
         popup_open |->
             IF f.click \in {"row", "outside"} THEN FALSE
             ELSE popup_after_events(open, f)]

\* show_impl: what the render pass returns and leaves in egui's memory. A
\* clicked row is the selection; its text is persisted and the popup closed.
\* CloseOnClickOutside closes the popup on a click outside.
show_impl(d, b, m, index, text, open, f) ==
    [selection |-> IF f.click = "row" THEN Some(f.row) ELSE None,
     persisted |->
         IF f.click = "row"
         THEN with_text(ListModel_item(b, m, f.row).val)
         ELSE persisted_after_events(b, m, index, text, open, f),
     popup_open |->
         IF f.click \in {"row", "outside"} THEN FALSE
         ELSE popup_after_events(open, f)]

\* Key transforms a caller passes to ModelDropDown::transform: the caller's
\* keys are the model's keys rotated. The reverse transform undoes the
\* forward one in the first pair and does not in the second.
RotateForward == [k \in Keys |->
                    CASE k = "k1" -> "k2" [] k = "k2" -> "k3" [] OTHER -> "k1"]

RotateBack == [k \in Keys |->
                 CASE k = "k1" -> "k3" [] k = "k2" -> "k1" [] OTHER -> "k2"]

TransformPairs ==
    {[key_transform |-> RotateForward, key_reverse_transform |-> RotateBack],
     [key_transform |-> RotateForward, key_reverse_transform |-> RotateForward]}

\* ModelDropDown::transform sets both transforms; Default has neither.
Transforms == {None} \cup {Some(p) : p \in TransformPairs}

\* show: the index of the caller's key, looked up through key_transform.
key_index(m, k, t) ==
    IF k.some
    THEN IF t.some THEN IndexMap_index_of(m, t.val.key_transform[k.val])
         ELSE IndexMap_index_of(m, k.val)
    ELSE None

\* A variant that writes the item's key back without the reverse transform.
key_after_untransformed(m, k, selection, t) ==
    IF selection.some /\ IndexMap_item(m, selection.val).some
    THEN Some(key(IndexMap_item(m, selection.val).val))
    ELSE k

\* show: the caller's key after the render pass: the selected item's key,
\* passed through key_reverse_transform.
key_after(m, k, selection, t) ==
    IF selection.some /\ IndexMap_item(m, selection.val).some
    THEN LET new_key == key(IndexMap_item(m, selection.val).val)
         IN  IF t.some THEN Some(t.val.key_reverse_transform[new_key])
             ELSE Some(new_key)
    ELSE k

\* A variant that writes the selection of the render pass back always.
index_after_cleared(index, selection) == selection

\* show_indexed: the caller's index after the render pass.
index_after(index, selection) == IF selection.some THEN selection ELSE index

\* The models a widget is rendered over: up to MaxLen items that differ
\* from one another, stored under their keys in the keyed backing.
WidgetModels(b) ==
    LET rows == {r \in UNION {[1 .. n -> VecItems] : n \in 0 .. MaxLen} :
                    \A i \in 1 .. Len(r), j \in 1 .. Len(r) :
                        i # j => r[i] # r[j]}
    IN  IF b = "Vec" THEN rows
        ELSE {[i \in 1 .. Len(q) |-> Entry(key(q[i]), q[i])] : q \in rows}

\* The caller holds any index or any key, also one the model no longer has.
WidgetInit ==
    /\ mode \in {"show", "show_indexed"}
    /\ backing = IF mode = "show" THEN "IndexMap" ELSE "Vec"
    /\ model \in WidgetModels(backing)
    /\ call = NoCall
    /\ ret = None
    /\ panicked = FALSE
    /\ adds = 0
    /\ removes = 0
    /\ decorated \in BOOLEAN
    /\ transforms \in IF mode = "show" THEN Transforms ELSE {None}
    /\ selected_index \in
           IF mode = "show_indexed" THEN {None} \cup {Some(i) : i \in Indices}
           ELSE {None}
    /\ selected_key \in
           IF mode = "show" THEN {None} \cup {Some(k) : k \in Keys}
           ELSE {None}
    /\ persisted = << >>
    /\ popup_open = FALSE
    /\ frame = NoFrame

Show ==
    /\ mode = "show"
    /\ \E f \in FrameEvents(decorated, backing, model,
                            key_index(model, selected_key, transforms),
                            persisted, popup_open) :
           LET r == show_impl(decorated, backing, model,
                              key_index(model, selected_key, transforms),
                              persisted, popup_open, f)
           IN  /\ selected_key' = key_after(model, selected_key, r.selection,
                                            transforms)
               /\ persisted' = r.persisted
               /\ popup_open' = r.popup_open
               /\ frame' = f
    /\ UNCHANGED <<modelVars, mode, decorated, transforms, selected_index>>

ShowIndexed ==
    /\ mode = "show_indexed"
    /\ \E f \in FrameEvents(decorated, backing, model, selected_index,
                            persisted, popup_open) :
           LET r == show_impl(decorated, backing, model, selected_index,
                              persisted, popup_open, f)
           IN  /\ selected_index' = index_after(selected_index, r.selection)
               /\ persisted' = r.persisted
               /\ popup_open' = r.popup_open
               /\ frame' = f
    /\ UNCHANGED <<modelVars, mode, decorated, transforms, selected_key>>

WidgetNext ==
    \/ Show
    \/ ShowIndexed

WidgetSpec == WidgetInit /\ [][WidgetNext]_vars

(***************************************************************************)
(* show, without transforms and in the text-only layout, over a keyed model *)
(* whose owner calls set_key through item_mut once, before the widget is   *)
(* first rendered; the caller holds no key at first.                       *)
(***************************************************************************)
KeyedHostInit ==
    /\ WidgetInit
    /\ mode = "show"
    /\ ~decorated
    /\ transforms = None
    /\ selected_key = None

HostSetKey ==
    /\ mode = "show"
    /\ frame = NoFrame
    /\ call = NoCall
    /\ ItemMutSetKey

KeyedHostNext ==
    \/ Show
    \/ HostSetKey

KeyedHostSpec == KeyedHostInit /\ [][KeyedHostNext]_vars

(***************************************************************************)
(* Properties of the model contract.                                       *)
(***************************************************************************)
Keyed == backing = "IndexMap"

ValidIndex(i) == i < Len(model)

HasKey(m, k) == \E i \in 1 .. Len(m) : m[i].k = k

KeysDistinct(m) ==
    \A i \in 1 .. Len(m), j \in 1 .. Len(m) : i # j => m[i].k # m[j].k

\* C1: in the keyed backing the stored keys are pairwise distinct and every
\* index i < len() holds the item whose key it is stored under:
\* index_of(item(i).key()) == i, after any sequence of calls.
C1_KeyedInvariant ==
    Keyed =>
        /\ KeysDistinct(model)
        /\ \A i \in 0 .. (IndexMap_len(model) - 1) :
               IndexMap_index_of(model, key(IndexMap_item(model, i).val))
                   = Some(i)

\* A keyed model of three entries just after a copy between two of its slots.
C1_Witness ==
    /\ Keyed
    /\ Len(model) = 3
    /\ call.op = "copy"
    /\ call.a # call.b
    /\ ValidIndex(call.a)
    /\ ValidIndex(call.b)

\* C2: keyed insert(index, item) with a key that is already stored, index
\* a position of the model: no duplicate is created (len() unchanged) and
\* the existing entry of that key is at position index afterwards.
C2_InsertExistingRepositions ==
    [][(/\ Keyed
        /\ call'.op = "insert"
        /\ call'.a < Len(model)
        /\ HasKey(model, call'.item.val.key))
       => (/\ Len(model') = Len(model)
           /\ IndexMap_index_of(model', call'.item.val.key) = Some(call'.a))
      ]_vars

\* After insert(c.a, c.item) on the keyed model `old`: item(c.a) has the
\* item's key, the entries previously at c.a and after have each moved up by
\* one position, and no key appears twice.
InsertedAndShifted(old, new, c) ==
    /\ IndexMap_item(new, c.a).some
    /\ key(IndexMap_item(new, c.a).val) = c.item.val.key
    /\ Len(new) = Len(old) + 1
    /\ \A j \in c.a .. (Len(old) - 1) : At(new, j + 1) = At(old, j)
    /\ KeysDistinct(new)

\* C3 as stated: keyed insert(i, item), for every i <= len() and every item,
\* lands the item's key at i and shifts the entries from i on by one.
C3_InsertShifts ==
    [][(/\ Keyed
        /\ call'.op = "insert"
        /\ call'.a <= Len(model))
       => InsertedAndShifted(model, model', call')
      ]_vars

\* C3 as amended: the same for every i <= len() and every item whose key is
\* not stored yet; the entries before i keep their places.
C3_InsertNewShifts ==
    [][(/\ Keyed
        /\ call'.op = "insert"
        /\ call'.a <= Len(model)
        /\ ~HasKey(model, call'.item.val.key))
       => (/\ InsertedAndShifted(model, model', call')
           /\ IndexMap_item(model', call'.a) = Some(call'.item.val)
           /\ \A j \in 0 .. (call'.a - 1) : At(model', j) = At(model, j))
      ]_vars

\* A keyed model of three entries just after insert(0, item): the item is at
\* 0 and two entries stand behind it.
C3_Witness ==
    /\ Keyed
    /\ call.op = "insert"
    /\ call.a = 0
    /\ Len(model) = 3
    /\ At(model, 0).v = call.item.val
    /\ adds = 3
    /\ removes = 0

\* C4: no call of the model contract panics.
C4_NoPanic == panicked = FALSE

\* The call is an index-taking one with an index out of bounds.
OutOfBounds(c, m) ==
    \/ c.op \in {"item", "item_mut", "remove"} /\ c.a >= Len(m)
    \/ c.op \in {"swap_items", "copy"} /\ (c.a >= Len(m) \/ c.b >= Len(m))
    \/ c.op = "insert" /\ c.a > Len(m)

\* C5: on both backings a call with an index out of bounds is a silent
\* no-op: item and item_mut return None, and remove, swap_items, copy and
\* insert leave the model as it was and do not fail.
C5_OutOfBoundsNoOp ==
    [][OutOfBounds(call', model)
       => (/\ model' = model
           /\ panicked' = FALSE
           /\ call'.op \in {"item", "item_mut"} => ret' = None)
      ]_vars

\* A keyed model after an insert beyond its length, a Vec after a copy to a
\* slot beyond its length.
C5_Witness ==
    /\ Len(model) >= 1
    /\ \/ Keyed /\ call.op = "insert" /\ call.a > Len(model)
       \/ ~Keyed /\ call.op = "copy" /\ ValidIndex(call.a)
              /\ call.b >= Len(model)

\* C6: keyed add(item) with a key that is already stored is a no-op: the
\* length, the order and the item stored under that key stay as they were.
C6_AddDuplicateNoOp ==
    [][(/\ Keyed
        /\ call'.op = "add"
        /\ HasKey(model, call'.item.val.key))
       => model' = model
      ]_vars

\* A keyed model just after add(item) where the stored entry of item's key
\* holds another item: the first writer's.
C6_Witness ==
    /\ Keyed
    /\ call.op = "add"
    /\ \E i \in 1 .. Len(model) :
           /\ model[i].k = call.item.val.key
           /\ model[i].v # call.item.val

\* C7: keyed copy(a, b) with a, b < len(): item(b) keeps the key that
\* occupied b and takes every other field of the previous item(a); len(),
\* the key order and every other entry are unchanged.
C7_CopyKeepsKey ==
    [][(/\ Keyed
        /\ call'.op = "copy"
        /\ call'.a < Len(model)
        /\ call'.b < Len(model))
       => (/\ Len(model') = Len(model)
           /\ key(IndexMap_item(model', call'.b).val) = At(model, call'.b).k
           /\ IndexMap_item(model', call'.b).val.text
                  = IndexMap_item(model, call'.a).val.text
           /\ \A i \in 1 .. Len(model) : model'[i].k = model[i].k
           /\ \A i \in 1 .. Len(model) :
                  i # call'.b + 1 => model'[i] = model[i])
      ]_vars

\* A keyed model just after copy(a, b), a # b: slot b holds the text of slot
\* a under its own key.
C7_Witness ==
    /\ Keyed
    /\ call.op = "copy"
    /\ call.a # call.b
    /\ ValidIndex(call.a)
    /\ ValidIndex(call.b)
    /\ At(model, call.b).v.text = At(model, call.a).v.text
    /\ At(model, call.b).v.key = At(model, call.b).k
    /\ At(model, call.b).k # At(model, call.a).k

\* The call has valid indices: insert at most len(), the others below it.
ValidCall(c, m) ==
    /\ c.op \in {"add", "insert", "remove", "swap_items", "copy"}
    /\ c.op = "insert" => c.a <= Len(m)
    /\ c.op \in {"remove", "swap_items", "copy"} => c.a < Len(m)
    /\ c.op \in {"swap_items", "copy"} => c.b < Len(m)

\* What a reference sequence `old` becomes by call c.
RefAdd(old, new, c) ==
    /\ Len(new) = Len(old) + 1
    /\ \A j \in 0 .. (Len(old) - 1) : At(new, j) = At(old, j)
    /\ At(new, Len(old)) = c.item.val

RefInsert(old, new, c) ==
    /\ Len(new) = Len(old) + 1
    /\ \A j \in 0 .. (c.a - 1) : At(new, j) = At(old, j)
    /\ At(new, c.a) = c.item.val
    /\ \A j \in c.a .. (Len(old) - 1) : At(new, j + 1) = At(old, j)

RefRemove(old, new, c) ==
    /\ Len(new) = Len(old) - 1
    /\ \A j \in 0 .. (c.a - 1) : At(new, j) = At(old, j)
    /\ \A j \in (c.a + 1) .. (Len(old) - 1) : At(new, j - 1) = At(old, j)

RefSwap(old, new, c) ==
    /\ Len(new) = Len(old)
    /\ At(new, c.a) = At(old, c.b)
    /\ At(new, c.b) = At(old, c.a)
    /\ \A j \in 0 .. (Len(old) - 1) :
           j \notin {c.a, c.b} => At(new, j) = At(old, j)

RefCopy(old, new, c) ==
    /\ Len(new) = Len(old)
    /\ At(new, c.b) = At(old, c.a)
    /\ \A j \in 0 .. (Len(old) - 1) : j # c.b => At(new, j) = At(old, j)

RefStep(old, new, c) ==
    /\ c.op = "add" => RefAdd(old, new, c)
    /\ c.op = "insert" => RefInsert(old, new, c)
    /\ c.op = "remove" => RefRemove(old, new, c)
    /\ c.op = "swap_items" => RefSwap(old, new, c)
    /\ c.op = "copy" => RefCopy(old, new, c)

ResolvedIndex ==
    IF mode = "show" THEN key_index(model, selected_key, transforms)
    ELSE selected_index

\* The display text of the current selection, empty when there is none.
SelectionText == display_text(backing, model, ResolvedIndex)

\* C10 as stated: in every render pass with force_refresh set and no row
\* click, whatever the widget state and the other events, the persisted
\* search text ends as the display text of the current selection.
C10_ForceRefreshAlways ==
    [][(frame'.force_refresh /\ frame'.click # "row")
       => persisted' = SelectionText
      ]_vars

\* C10 as amended: the same in every such render pass in which the text
\* field does not gain focus.
C10_ForceRefreshUnlessFocusGained ==
    [][(/\ frame'.force_refresh
        /\ ~frame'.gained_focus
        /\ frame'.click # "row")
       => persisted' = SelectionText
      ]_vars

\* An open popup after a render pass with force_refresh in which the user
\* typed another text: the persisted text is the selection's display text.
C10_Witness ==
    /\ frame.force_refresh
    /\ ~frame.gained_focus
    /\ frame.changed
    /\ frame.click = "none"
    /\ popup_open
    /\ persisted = SelectionText
    /\ persisted # << >>
    /\ frame.typed # persisted

\* The item of the row clicked in the render pass just made.
ClickedItem == ListModel_item(backing, model, frame'.row)

\* C11, as stated: a click on a visible row i while the popup is open makes
\* i the selection of that render pass (show_indexed leaves Some(i) in the
\* caller's index, show the key of item i in the caller's key), persists
\* item i's display text as the search text and leaves the popup closed.
C11_RowClickWritesItemKey ==
    [][(popup_open /\ frame'.click = "row")
       => /\ ClickedItem.some
          /\ persisted' = with_text(ClickedItem.val)
          /\ ~popup_open'
          /\ mode = "show_indexed" => selected_index' = Some(frame'.row)
          /\ mode = "show" => selected_key' = Some(key(ClickedItem.val))
      ]_vars

\* C11 as amended: the same, but show leaves in the caller's key the key of
\* item i passed through the reverse transform when transforms are set.
C11_RowClickCommits ==
    [][(popup_open /\ frame'.click = "row")
       => /\ ClickedItem.some
          /\ persisted' = with_text(ClickedItem.val)
          /\ ~popup_open'
          /\ mode = "show_indexed" => selected_index' = Some(frame'.row)
          /\ (mode = "show" /\ ~transforms.some)
                 => selected_key' = Some(key(ClickedItem.val))
          /\ (mode = "show" /\ transforms.some)
                 => selected_key' =
                        Some(transforms.val.key_reverse_transform[
                                 key(ClickedItem.val)])
      ]_vars

\* A render pass of show with transforms that started with the popup open,
\* in which the user narrowed the rows by a typed text and clicked one whose
\* key the reverse transform changes: the popup is closed, the row's text
\* persisted and the transformed key held by the caller.
C11_Witness ==
    /\ mode = "show"
    /\ transforms.some
    /\ frame.open
    /\ frame.click = "row"
    /\ frame.changed
    /\ frame.typed # << >>
    /\ ~frame.force_refresh
    /\ ~frame.gained_focus
    /\ ~popup_open
    /\ IndexMap_item(model, frame.row).some
    /\ persisted = with_text(IndexMap_item(model, frame.row).val)
    /\ selected_key # Some(key(IndexMap_item(model, frame.row).val))
    /\ selected_key =
           Some(transforms.val.key_reverse_transform[
                    key(IndexMap_item(model, frame.row).val)])

\* C12, as stated: a render pass in which the text field gains focus while
\* the popup is closed leaves the popup open and the persisted search text
\* empty, whatever the display text of the selection.
C12_FocusGainOpens ==
    [][(~popup_open /\ frame'.gained_focus)
       => (popup_open' /\ persisted' = << >>)
      ]_vars

\* C12 as amended: such a render pass leaves the persisted search text empty
\* unless a row is clicked in it, and the popup open unless a row is clicked
\* or the popup is dismissed (click outside, Escape) in it.
C12_FocusGainOpensUnlessClicked ==
    [][(~popup_open /\ frame'.gained_focus)
       => /\ frame'.click # "row" => persisted' = << >>
          /\ frame'.click = "none" => popup_open'
      ]_vars

\* The popup opened by a focus gain over a selection with a display text:
\* the persisted search text is empty.
C12_Witness ==
    /\ ~frame.open
    /\ frame.gained_focus
    /\ frame.click = "none"
    /\ popup_open
    /\ persisted = << >>
    /\ SelectionText # << >>

\* `pat` fills the positions a + 1 .. b of `text`, for some a <= b.
OccursIn(pat, text) ==
    \E a \in 0 .. Len(text), b \in 0 .. Len(text) :
        a <= b /\ SubSeq(text, a + 1, b) = pat

\* The spec's example: a model with the display texts apple, banana, cherry.
FruitModel ==
    <<Item("k1", <<"a", "p", "p", "l", "e">>),
      Item("k2", <<"b", "a", "n", "a", "n", "a">>),
      Item("k3", <<"c", "h", "e", "r", "r", "y">>)>>

\* C13: for every search text, the rows of the popup are the model's
\* indices, in increasing order, of exactly the items whose display text
\* holds the search text as a substring, letter case included; the empty
\* search text shows every row; over apple, banana, cherry the search text
\* "an" shows banana alone and "An" shows nothing.
C13_VisibleRowsAreSubstringMatches ==
    /\ \A search \in SearchTexts :
           LET rows == visible_rows(decorated, backing, model, search)
           IN  /\ \A j \in 1 .. Len(rows), k \in 1 .. Len(rows) :
                      j < k => rows[j] < rows[k]
               /\ RowSet(rows) =
                      {i \in 0 .. (Len(model) - 1) :
                          OccursIn(search,
                                   with_text(ListModel_item(backing, model,
                                                            i).val))}
               /\ search = << >>
                      => rows = [j \in 1 .. Len(model) |-> j - 1]
    /\ \A d \in BOOLEAN :
           /\ visible_rows(d, "Vec", FruitModel, <<"a", "n">>) = <<1>>
           /\ visible_rows(d, "Vec", FruitModel, <<"A", "n">>) = << >>
           /\ visible_rows(d, "Vec", FruitModel, << >>) = <<0, 1, 2>>

\* An open popup whose rows a typed, non-empty search text has narrowed to
\* some rows that do not start at the model's first.
C13_Witness ==
    /\ popup_open
    /\ frame.open
    /\ frame.changed
    /\ ~frame.gained_focus
    /\ ~frame.force_refresh
    /\ frame.click = "none"
    /\ frame.typed # << >>
    /\ persisted = frame.typed
    /\ LET rows == visible_rows(decorated, backing, model, persisted)
       IN  /\ Len(rows) >= 1
           /\ Len(rows) < Len(model)
           /\ rows[1] # 0

\* C14: a render pass changes the caller's index or key only if a row was
\* clicked in it: a focus gain, a change of the text, a click outside and
\* force_refresh leave them as they were; and no render pass changes the
\* model.
C14_OnlyRowClickChangesSelection ==
    [][/\ frame'.click # "row"
          => (selected_index' = selected_index /\ selected_key' = selected_key)
       /\ model' = model
       /\ backing' = backing
      ]_vars

\* A render pass with force_refresh, a focus gain, a change of the text and
\* a click outside, over a model with items: the caller still holds a
\* selection that resolves to an item.
C14_Witness ==
    /\ frame.force_refresh
    /\ frame.gained_focus
    /\ frame.changed
    /\ frame.click = "outside"
    /\ ResolvedIndex.some
    /\ SelectionText # << >>

\* A render pass without events that starts in the state reached.
QuietFrame == Frame(popup_open, FALSE, FALSE, FALSE, << >>, "none", 0)

\* The search text by which such a render pass filters the rows.
QuietSearch ==
    search_after_events(backing, model, ResolvedIndex, persisted, popup_open,
                        QuietFrame)

\* C16, as stated: a change of the text to t' in a render pass that starts
\* with the popup open is persisted in that pass, so that, the popup still
\* being open, the next pass without focus gain, force_refresh or row click
\* starts with the search text t' and filters the rows by it.
C16_TextChangePersisted ==
    [][(popup_open /\ frame'.changed /\ popup_open')
       => (persisted' = frame'.typed /\ QuietSearch' = frame'.typed)
      ]_vars

\* C16 as amended: the same for a change of the text in a render pass
\* without focus gain and without force_refresh.
C16_TextChangePersistedUnlessOverridden ==
    [][(/\ popup_open
        /\ frame'.changed
        /\ ~frame'.gained_focus
        /\ ~frame'.force_refresh
        /\ popup_open')
       => (persisted' = frame'.typed /\ QuietSearch' = frame'.typed)
      ]_vars

\* An open popup after a render pass in which the user changed the search
\* text to one that is not the selection's display text: the next pass
\* starts with the typed text.
C16_Witness ==
    /\ frame.open
    /\ frame.changed
    /\ ~frame.gained_focus
    /\ ~frame.force_refresh
    /\ popup_open
    /\ frame.typed # << >>
    /\ frame.typed # SelectionText
    /\ persisted = frame.typed
    /\ QuietSearch = frame.typed

\* The caller holds a selection the model does not have: an index past the
\* end (show_indexed), or a key whose lookup finds no entry (show).
StaleSelection ==
    \/ /\ mode = "show_indexed"
       /\ selected_index.some
       /\ selected_index.val >= Len(model)
    \/ /\ mode = "show"
       /\ selected_key.some
       /\ ~ResolvedIndex.some

\* What a render pass over a stale selection shows: it does not fail, the
\* display text is empty (force_refresh persists the empty string), and no
\* row of the model is drawn as the selected one.
StaleSelectionShown ==
    /\ ~panicked'
    /\ SelectionText = << >>
    /\ (frame'.force_refresh /\ ~frame'.gained_focus /\ frame'.click # "row")
           => persisted' = << >>
    /\ \A i \in 0 .. (Len(model) - 1) : ~row_selected(ResolvedIndex, i)

\* C19, as stated: a render pass over a stale selection completes without
\* failure, uses the empty string as the display text, marks no row as
\* selected and leaves the caller's index or key as it was.
C19_StaleSelectionKept ==
    [][StaleSelection
       => /\ StaleSelectionShown
          /\ selected_index' = selected_index
          /\ selected_key' = selected_key
      ]_vars

\* C19 as amended: the same, but the caller's index or key is left as it
\* was only in a render pass in which no row is clicked.
C19_StaleSelectionKeptUnlessClicked ==
    [][StaleSelection
       => /\ StaleSelectionShown
          /\ frame'.click # "row"
                 => /\ selected_index' = selected_index
                    /\ selected_key' = selected_key
      ]_vars

\* An open popup with rows, rendered with force_refresh over a selection
\* that is still stale: the persisted text is the empty display text.
C19_Witness ==
    /\ StaleSelection
    /\ Len(model) > 0
    /\ frame.open
    /\ frame.force_refresh
    /\ ~frame.gained_focus
    /\ frame.click = "none"
    /\ popup_open
    /\ persisted = << >>

\* C20: whenever the popup is closed at the start of a render pass, the
\* text put into the field is the display text of the resolved selection,
\* whatever the persisted search text; the popup stays closed through a
\* render pass without focus gain, so a text typed while it is closed is
\* not the next pass's text.
C20_ClosedFieldShowsSelection ==
    /\ ~popup_open
          => \A t \in SearchTexts :
                 initial_search(backing, model, ResolvedIndex, t, popup_open)
                     = SelectionText
    /\ (~frame.open /\ ~frame.gained_focus)
          => /\ ~popup_open
             /\ initial_search(backing, model, ResolvedIndex, persisted,
                               popup_open) = SelectionText

\* A closed popup after a render pass, started closed, in which the user
\* typed a text that is not the selection's display text: the typed text is
\* persisted, and the next pass puts the display text into the field.
C20_Witness ==
    /\ ~frame.open
    /\ frame.changed
    /\ ~frame.gained_focus
    /\ ~frame.force_refresh
    /\ ~popup_open
    /\ persisted = frame.typed
    /\ persisted # SelectionText
    /\ initial_search(backing, model, ResolvedIndex, persisted, popup_open)
           = SelectionText

\* C18: remove(i) with i < len() on the keyed backing leaves the entries
\* that were stored, without the i-th, in their order: those before i stay,
\* those after i move down by one, the removed key is gone and index_of of
\* every remaining key is its new position.
C18_RemoveShiftsDown ==
    [][(Keyed /\ call'.op = "remove" /\ call'.a < Len(model))
       => /\ ~panicked'
          /\ IndexMap_len(model') = IndexMap_len(model) - 1
          /\ \A j \in 0 .. (IndexMap_len(model') - 1) :
                 /\ At(model', j) =
                        At(model, IF j < call'.a THEN j ELSE j + 1)
                 /\ IndexMap_index_of(model', At(model', j).k) = Some(j)
          /\ ~HasKey(model', At(model, call'.a).k)
          /\ IndexMap_index_of(model', At(model, call'.a).k) = None
      ]_vars

\* A keyed model of two entries left by the removal of the first of three.
C18_Witness ==
    /\ Keyed
    /\ call.op = "remove"
    /\ call.a = 0
    /\ ~panicked
    /\ IndexMap_len(model) = 2
    /\ removes >= 1
    /\ adds = 3

\* C17: the keyed invariant (pairwise distinct keys, and every index i
\* holding the item of the key it is found under: index_of(item(i).key())
\* == i) also holds when callers, besides add / insert / remove /
\* swap_items / copy, call set_key on the item that item_mut(i) returns.
C17_KeyedInvariantUnderSetKey ==
    /\ KeysDistinct(model)
    /\ \A i \in 0 .. (IndexMap_len(model) - 1) :
           /\ IndexMap_index_of(model, key(IndexMap_item(model, i).val))
                  = Some(i)
           /\ \A j \in 0 .. (IndexMap_len(model) - 1) :
                  i # j => key(IndexMap_item(model, i).val)
                               # key(IndexMap_item(model, j).val)

\* The transforms are absent, or the forward transform undoes the reverse
\* one on every key.
RoundTripTransforms ==
    transforms.some
        => \A k \in Keys :
               transforms.val.key_transform[
                   transforms.val.key_reverse_transform[k]] = k

\* C15: show resolves the caller's key to index_of(forward(key)) and a
\* click on row i leaves reverse(item(i).key()) in the caller's key, absent
\* transforms being the identity; so without transforms, or with transforms
\* whose forward undoes the reverse, the render pass after a click on row i,
\* the model unchanged, resolves the caller's key to index i.
C15_KeyRoundTrip ==
    [][(mode = "show" /\ frame'.click = "row")
       => /\ ClickedItem.some
          /\ selected_key' =
                 Some(IF transforms.some
                      THEN transforms.val.key_reverse_transform[
                               key(ClickedItem.val)]
                      ELSE key(ClickedItem.val))
          /\ ResolvedIndex' =
                 IndexMap_index_of(model',
                     IF transforms.some
                     THEN transforms.val.key_transform[selected_key'.val]
                     ELSE selected_key'.val)
          /\ RoundTripTransforms => ResolvedIndex' = Some(frame'.row)
      ]_vars

\* The selections a render pass in layout d can return from the state
\* reached, each with the search text its rows were filtered by.
EmittedSelections(d) ==
    {<<show_impl(d, backing, model, ResolvedIndex, persisted, popup_open,
                 f).selection,
       search_after_events(backing, model, ResolvedIndex, persisted,
                           popup_open, f)>> :
        f \in FrameEvents(d, backing, model, ResolvedIndex, persisted,
                          popup_open)}

\* C21: every selection a render pass returns is an index i < len() of the
\* model whose item's display text holds the search text of that pass as a
\* substring (the empty search text included), and the two-column layout
\* and the text-only layout return the same selections.
C21_SelectionIsMatchingModelIndex ==
    LET two_column == EmittedSelections(TRUE)
    IN  /\ two_column = EmittedSelections(FALSE)
        /\ \A e \in two_column :
               e[1].some
                   => /\ e[1].val < ListModel_len(backing, model)
                      /\ ListModel_item(backing, model, e[1].val).some
                      /\ OccursIn(e[2],
                                  with_text(ListModel_item(backing, model,
                                                           e[1].val).val))

\* The two-column layout after a click on the first of the rows a typed
\* search text left, which is not the model's first item: the caller's
\* index is the item's index in the model.
C21_Witness ==
    /\ mode = "show_indexed"
    /\ decorated
    /\ frame.open
    /\ frame.click = "row"
    /\ frame.changed
    /\ ~frame.gained_focus
    /\ ~frame.force_refresh
    /\ frame.typed # << >>
    /\ frame.row >= 1
    /\ visible_rows(decorated, backing, model, frame.typed)[1] = frame.row
    /\ selected_index = Some(frame.row)
    /\ ~popup_open

====
